---- MODULE Spec2Model ----
(***************************************************************************)
(* Model of scrapeCPP.js: the catalog scraper of the CPP programs page.    *)
(* Text that the code inspects character by character (program names) is   *)
(* a sequence of one-character strings; text the code only copies (URLs,   *)
(* descriptions, college and department headings) is a plain string.       *)
(***************************************************************************)
EXTENDS Integers, Sequences, FiniteSets, TLC

VARIABLES
    name,          \* cleanMajorName: the argument of the call under test
    cleaned,       \* cleanMajorName: whether it returned, and what
    pc,            \* scrapeCPP: the await (or blocking call) it is at
    error,         \* scrapeCPP: the step whose rejection ended the run
    browser,       \* the puppeteer browser: "none", "open" or "closed"
    launches,      \* number of completed puppeteer.launch calls
    openDetail,    \* number of detail pages (majorPage) currently open
    warnings,      \* number of console.warn calls of the catch block
    collegesData,  \* Step 1: the listing returned by page.evaluate
    cleanedData,   \* Step 2: the cleaned and deduplicated listing
    visit,         \* Step 3: index of the major being visited
    description,   \* Step 3: the local variable of the loop body
    results,       \* Step 3: the accumulated records
    file,          \* contents of cpp_majors.json
    store,         \* the College, Department and Major tables
    entry,         \* Step 6: index of the record being stored
    dbCollege,     \* Step 6: id returned by the college upsert
    dbDepartment,  \* Step 6: id returned by the department upsert
    run,           \* number of the pass of Step 6 over the list
    store0,        \* the tables before the first pass
    store1         \* the tables after the first pass

cleanVars == <<name, cleaned>>

scrapeVars == <<pc, error, browser, launches, openDetail, warnings, collegesData,
                cleanedData, visit, description, results, file>>

sinkVars == <<store, entry, dbCollege, dbDepartment, run, store0, store1>>

vars == <<cleanVars, scrapeVars, sinkVars>>

----------------------------------------------------------------------------
(* Character classes and string primitives of the JavaScript runtime.      *)

UpperCase == {"A","B","C","D","E","F","G","H","I","J","K","L","M",
              "N","O","P","Q","R","S","T","U","V","W","X","Y","Z"}

LowerCase == {"a","b","c","d","e","f","g","h","i","j","k","l","m",
              "n","o","p","q","r","s","t","u","v","w","x","y","z"}

\* [A-Za-z]
IsLetter(c) == c \in UpperCase \cup LowerCase

\* \s, restricted to the one white-space character of the modelled alphabet
IsSpace(c) == c = " "

\* s.substring(from - 1, to), 1-based and inclusive, empty when from > to
Sub(s, from, to) == IF from > to THEN <<>> ELSE SubSeq(s, from, to)

\* String.prototype.trim
RECURSIVE TrimStart(_)
TrimStart(s) ==
    IF s # <<>> /\ IsSpace(Head(s)) THEN TrimStart(Tail(s)) ELSE s

RECURSIVE TrimEnd(_)
TrimEnd(s) ==
    IF s # <<>> /\ IsSpace(s[Len(s)]) THEN TrimEnd(Sub(s, 1, Len(s) - 1)) ELSE s

Trim(s) == TrimEnd(TrimStart(s))

\* String.prototype.startsWith
StartsWith(s, p) == Len(s) >= Len(p) /\ Sub(s, 1, Len(p)) = p

\* first index >= from at which p occurs in s, 0 when there is none
RECURSIVE IndexOf(_, _, _)
IndexOf(s, p, from) ==
    IF from + Len(p) - 1 > Len(s) THEN 0
    ELSE IF Sub(s, from, from + Len(p) - 1) = p THEN from
    ELSE IndexOf(s, p, from + 1)

\* String.prototype.split with a non-empty separator
RECURSIVE Split(_, _)
Split(s, sep) ==
    LET i == IndexOf(s, sep, 1)
    IN  IF i = 0 THEN <<s>>
        ELSE <<Sub(s, 1, i - 1)>> \o Split(Sub(s, i + Len(sep), Len(s)), sep)

----------------------------------------------------------------------------
(* degreeSuffixRegex = /,\s*B\.[A-Za-z]+\.?/                               *)

\* index after the longest run of characters of a class starting at i
RECURSIVE SkipSpaces(_, _)
SkipSpaces(s, i) ==
    IF i <= Len(s) /\ IsSpace(s[i]) THEN SkipSpaces(s, i + 1) ELSE i

RECURSIVE SkipLetters(_, _)
SkipLetters(s, i) ==
    IF i <= Len(s) /\ IsLetter(s[i]) THEN SkipLetters(s, i + 1) ELSE i

\* index after the match of the regex that starts at i, 0 when none starts
\* there; every quantifier is greedy and none of them can give back a
\* character the rest of the pattern needs, so the match is unique
DegreeSuffixEnd(s, i) ==
    IF i > Len(s) \/ s[i] # "," THEN 0
    ELSE LET b == SkipSpaces(s, i + 1)
         IN  IF b + 2 > Len(s) THEN 0
             ELSE IF s[b] # "B" \/ s[b + 1] # "." THEN 0
             ELSE IF ~IsLetter(s[b + 2]) THEN 0
             ELSE LET l == SkipLetters(s, b + 2)
                  IN  IF l <= Len(s) /\ s[l] = "." THEN l + 1 ELSE l

\* start of the leftmost match at or after i, 0 when the regex does not match
RECURSIVE DegreeSuffixStart(_, _)
DegreeSuffixStart(s, i) ==
    IF i > Len(s) THEN 0
    ELSE IF DegreeSuffixEnd(s, i) # 0 THEN i
    ELSE DegreeSuffixStart(s, i + 1)

\* s.replace(degreeSuffixRegex, ""): the regex has no g flag, so only the
\* leftmost match is removed
StripDegreeSuffix(s) ==
    LET i == DegreeSuffixStart(s, 1)
    IN  IF i = 0 THEN s
        ELSE Sub(s, 1, i - 1) \o Sub(s, DegreeSuffixEnd(s, i), Len(s))

----------------------------------------------------------------------------
(* cleanMajorName                                                          *)

Separator == <<" ","-"," ">>

PreCredential == <<"P","r","e","-","C","r","e","d","e","n","t","i","a","l">>

General == <<"G","e","n","e","r","a","l">>

cleanMajorName(n) ==
    LET parts == Split(n, Separator)
    IN  IF Len(parts) > 1
        THEN LET majorPart == parts[1]
                 specialization == Trim(parts[2])
             IN  IF specialization = PreCredential
                 THEN Trim(StripDegreeSuffix(majorPart)) \o Separator \o PreCredential
                 ELSE IF StartsWith(specialization, General)
                 THEN Trim(StripDegreeSuffix(majorPart))
                 ELSE specialization
        ELSE Trim(StripDegreeSuffix(n))

----------------------------------------------------------------------------
(* Raw catalog labels: a major, an optional degree suffix and an optional  *)
(* specialization.                                                         *)

Art == <<"A","r","t">>

History == <<"H","i","s","t","o","r","y">>

Sociology == <<"S","o","c","i","o","l","o","g","y">>

Composition == <<"C","o","m","p","o","s","i","t","i","o","n">>

GeneralSociology ==
    <<"G","e","n","e","r","a","l"," ","S","o","c","i","o","l","o","g","y">>

\* the major part of a label
MajorParts == {Art, History, Sociology}

\* degree abbreviations of one token after "B.", as they follow the comma
OneTokenDegrees ==
    { <<"B",".","S",".">>, <<"B",".","A",".">>, <<"B",".","A","r","c","h",".">>,
      <<"B",".","M">> }

\* degree abbreviations of several tokens after "B."
ManyTokenDegrees == { <<"B",".","F",".","A",".">> }

\* <<>> stands for a label without a degree suffix
Degrees == OneTokenDegrees \cup ManyTokenDegrees \cup {<<>>}

\* <<>> stands for a label without a specialization
Specializations == {<<>>, PreCredential, General, GeneralSociology, Composition}

Labels == [major : MajorParts, degree : Degrees, specialization : Specializations]

\* the text of a label, "Major, B.X. - Specialization"
RawName(l) ==
    l.major
    \o (IF l.degree = <<>> THEN <<>> ELSE <<",", " ">> \o l.degree)
    \o (IF l.specialization = <<>> THEN <<>> ELSE Separator \o l.specialization)

----------------------------------------------------------------------------
(* FALLBACK_DESCRIPTIONS, keyed by cleaned major name; the description     *)
(* texts are abbreviated to their first sentence or clause.                *)

MaterialsEngineering ==
    <<"M","a","t","e","r","i","a","l","s"," ",
      "E","n","g","i","n","e","e","r","i","n","g">>

AerospaceEngineering ==
    <<"A","e","r","o","s","p","a","c","e"," ",
      "E","n","g","i","n","e","e","r","i","n","g">>

ArtHistory == <<"A","r","t"," ","H","i","s","t","o","r","y">>

ArtificialIntelligenceEthicsAndSociety ==
    <<"A","r","t","i","f","i","c","i","a","l"," ",
      "I","n","t","e","l","l","i","g","e","n","c","e"," ",
      "E","t","h","i","c","s"," ","a","n","d"," ","S","o","c","i","e","t","y">>

FALLBACK_DESCRIPTIONS ==
    (MaterialsEngineering :> [
        description |-> "Deal with developing products and processes based on understanding the structure of materials.",
        url |-> "https://www.cpp.edu/engineering/cme/index.shtml"])
    @@ (AerospaceEngineering :> [
        description |-> "Expand your horizons with a theoretical and experimental study of aerodynamics",
        url |-> "https://www.cpp.edu/programs/eng/aerospace-engineering/aerospace-engineering.shtml"])
    @@ (ArtHistory :> [
        description |-> "Explore the artistic legacies of historical periods, regions and cultural traditions worldwide.",
        url |-> "https://www.cpp.edu/programs/env/art/art-history.shtml"])
    @@ (ArtificialIntelligenceEthicsAndSociety :> [
        description |-> "Address problems raised by AI's increasingly pervasive influence on society",
        url |-> "https://www.cpp.edu/class/science-technology-society/about-page.shtml#ai-ethics"])

\* FALLBACK_DESCRIPTIONS[major.name] is truthy
HasFallback(n) == n \in DOMAIN FALLBACK_DESCRIPTIONS

----------------------------------------------------------------------------
(* The listing page: what page.evaluate finds in the DOM.                  *)

\* largest number of program links on the listing page
MaxLinks == 3

Music == <<"M","u","s","i","c">>

ChemicalEngineering ==
    <<"C","h","e","m","i","c","a","l"," ",
      "E","n","g","i","n","e","e","r","i","n","g">>

GeneralMusic == <<"G","e","n","e","r","a","l"," ","M","u","s","i","c">>

BS == <<"B",".","S",".">>

BA == <<"B",".","A",".">>

\* a program link: its text and the headings it stands under
Link(collegeName, departmentName, label) ==
    [college |-> collegeName, department |-> departmentName,
     name |-> RawName(label)]

\* the links a page is made of: "Materials Engineering, B.S.",
\* "Chemical Engineering, B.S.", "Aerospace Engineering, B.S.", "Music, B.A."
\* and "Music, B.A. - General Music"
Links ==
    { Link("College of Engineering", "Chemical and Materials Engineering",
           [major |-> MaterialsEngineering, degree |-> BS, specialization |-> <<>>]),
      Link("College of Engineering", "Chemical and Materials Engineering",
           [major |-> ChemicalEngineering, degree |-> BS, specialization |-> <<>>]),
      Link("College of Engineering", "Aerospace Engineering",
           [major |-> AerospaceEngineering, degree |-> BS, specialization |-> <<>>]),
      Link("College of Letters, Arts, and Social Sciences", "Music",
           [major |-> Music, degree |-> BA, specialization |-> <<>>]),
      Link("College of Letters, Arts, and Social Sciences", "Music",
           [major |-> Music, degree |-> BA, specialization |-> GeneralMusic]) }

\* link.href of the i-th link of the page
LinkHref(i) == "https://www.cpp.edu/programs/" \o ToString(i) \o ".shtml"

\* the links of a page in document order
LinkLists == UNION { [1..n -> Links] : n \in 0..MaxLinks }

\* the nested arrays built by the callback of page.evaluate: one element
\* per div.college, in it one per div.dept-programs, in it one per link
RECURSIVE Listing(_, _)
Listing(links, n) ==
    IF n = 0 THEN <<>>
    ELSE LET data == Listing(links, n - 1)
             l == links[n]
             m == [name |-> l.name, href |-> LinkHref(n)]
             d == [department |-> l.department, majors |-> <<m>>]
             c == [college |-> l.college, departments |-> <<d>>]
         IN  IF data = <<>> \/ data[Len(data)].college # l.college
             THEN Append(data, c)
             ELSE LET ds == data[Len(data)].departments
                  IN  IF ds[Len(ds)].department # l.department
                      THEN [data EXCEPT ![Len(data)].departments = Append(ds, d)]
                      ELSE [data EXCEPT ![Len(data)].departments[Len(ds)].majors =
                                Append(ds[Len(ds)].majors, m)]

Listings == { Listing(links, Len(links)) : links \in LinkLists }

----------------------------------------------------------------------------
(* Step 2: clean and deduplicate program names                             *)

\* dept.majors.map(p => ({ name: cleanMajorName(p.name), href: p.href }))
CleanedMajors(majors) ==
    [i \in 1..Len(majors) |->
        [name |-> cleanMajorName(majors[i].name), href |-> majors[i].href]]

\* Assign as it would be if the first entry of a name were kept
AssignFirstWins(acc, p) ==
    IF \E i \in 1..Len(acc) : acc[i].name = p.name THEN acc ELSE Append(acc, p)

\* acc[p.name] = p on an object whose own string keys keep insertion order
Assign(acc, p) ==
    IF \E i \in 1..Len(acc) : acc[i].name = p.name
    THEN [i \in 1..Len(acc) |-> IF acc[i].name = p.name THEN p ELSE acc[i]]
    ELSE Append(acc, p)

\* Object.values(cleanedMajors.reduce(..., {})) over the first n elements
RECURSIVE UniqueMajors(_, _)
UniqueMajors(cleanedMajors, n) ==
    IF n = 0 THEN <<>>
    ELSE Assign(UniqueMajors(cleanedMajors, n - 1), cleanedMajors[n])

CleanedDepartment(dept) ==
    [department |-> dept.department,
     majors |-> UniqueMajors(CleanedMajors(dept.majors), Len(dept.majors))]

CleanedData(data) ==
    [i \in 1..Len(data) |->
        [college |-> data[i].college,
         departments |->
            [j \in 1..Len(data[i].departments) |->
                CleanedDepartment(data[i].departments[j])]]]

----------------------------------------------------------------------------
(* scrapeCPP, Steps 1 and 2: one action per awaited call.  A rejected      *)
(* await outside the try block rejects the promise of scrapeCPP.           *)

\* the value of a variable that holds null
null == "<null>"

\* cpp_majors.json as an earlier run left it
PriorFile ==
    <<[college |-> "College of Science", department |-> "Physics",
       major |-> <<"P","h","y","s","i","c","s">>,
       url |-> "https://www.cpp.edu/programs/old.shtml",
       description |-> "N/A"]>>

EmptyStore == [colleges |-> {}, departments |-> {}, majors |-> {}]

InitScrape ==
    /\ pc = "launch"
    /\ error = null
    /\ browser = "none"
    /\ launches = 0
    /\ openDetail = 0
    /\ warnings = 0
    /\ collegesData = <<>>
    /\ cleanedData = <<>>
    /\ visit = 0
    /\ description = null
    /\ results = <<>>
    /\ file = PriorFile

\* Reject as it would be if the rejection were swallowed and the run went
\* on to persist what it has
RejectSwallowed(at) ==
    /\ pc' = "writeFile"
    /\ error' = at

\* the await at step `at` rejects
Reject(at) ==
    /\ pc' = "failed"
    /\ error' = at

\* the await at step `at` resolves and the code runs on to the await `next`
Resolve(at, next) ==
    /\ pc' = next
    /\ error' = error

\* the positions <<college, department, major>> in the order of the three
\* nested for-of loops of Step 3
RECURSIVE DepartmentsFrom(_, _, _)
DepartmentsFrom(data, i, j) ==
    IF j > Len(data[i].departments) THEN <<>>
    ELSE [k \in 1..Len(data[i].departments[j].majors) |-> <<i, j, k>>]
         \o DepartmentsFrom(data, i, j + 1)

RECURSIVE CollegesFrom(_, _)
CollegesFrom(data, i) ==
    IF i > Len(data) THEN <<>>
    ELSE DepartmentsFrom(data, i, 1) \o CollegesFrom(data, i + 1)

LoopOrder(data) == CollegesFrom(data, 1)

Launch ==
    /\ pc = "launch"
    /\ \E ok \in BOOLEAN :
        IF ok
        THEN /\ Resolve("launch", "newPage")
             /\ browser' = "open"
             /\ launches' = launches + 1
        ELSE /\ Reject("launch")
             /\ UNCHANGED <<browser, launches>>
    /\ UNCHANGED <<openDetail, warnings, collegesData, cleanedData, visit, description,
                   results, file>>
    /\ UNCHANGED <<cleanVars, sinkVars>>

\* an await on the listing page that changes nothing the run keeps
PageStep(at, next) ==
    /\ pc = at
    /\ \E ok \in BOOLEAN : IF ok THEN Resolve(at, next) ELSE Reject(at)
    /\ UNCHANGED <<browser, launches, openDetail, warnings, collegesData, cleanedData,
                   visit, description, results, file>>
    /\ UNCHANGED <<cleanVars, sinkVars>>

NewPage == PageStep("newPage", "setViewport")

SetViewport == PageStep("setViewport", "goto")

Goto == PageStep("goto", "waitForFilter")

WaitForFilter == PageStep("waitForFilter", "click")

ClickFilter == PageStep("click", "select")

SelectView == PageStep("select", "waitForColleges")

WaitForColleges == PageStep("waitForColleges", "evaluate")

\* page.evaluate resolves with the listing; Step 2 and the entry into the
\* loops of Step 3 follow without an await
EvaluateResolved(data) ==
    /\ collegesData' = data
    /\ cleanedData' = CleanedData(data)
    /\ results' = <<>>
    /\ IF LoopOrder(CleanedData(data)) # <<>>
       THEN /\ Resolve("evaluate", "detailNewPage")
            /\ visit' = 1
       ELSE /\ Resolve("evaluate", "writeFile")
            /\ visit' = visit

Evaluate ==
    /\ pc = "evaluate"
    /\ \/ \E data \in Listings : EvaluateResolved(data)
       \/ /\ Reject("evaluate")
          /\ UNCHANGED <<collegesData, cleanedData, results, visit>>
    /\ UNCHANGED <<browser, launches, openDetail, warnings, description, file>>
    /\ UNCHANGED <<cleanVars, sinkVars>>

----------------------------------------------------------------------------
(* scrapeCPP, Step 3: visit each major link.  Every await of the loop body *)
(* is inside the try block; a rejection is caught and the body runs on.    *)

\* what $eval can return: the text of the block with white space collapsed
\* and trimmed, possibly empty
DetailTexts == {"", "Learn by doing in this hands-on program."}

\* !description
Missing(d) == d = null \/ d = ""

\* the major the loop is at
Position == LoopOrder(cleanedData)[visit]

College == cleanedData[Position[1]]

Department == College.departments[Position[2]]

Major == Department.majors[Position[3]]

\* Step 4: the description after the fallback
FallbackDescription(d, n) ==
    IF Missing(d) /\ HasFallback(n)
    THEN FALLBACK_DESCRIPTIONS[n].description
    ELSE d

\* FallbackHref as it would be if the fallback url were not applied
FallbackHrefKept(d, n, href) == href

\* Step 4: major.href after the fallback
FallbackHref(d, n, href) ==
    IF Missing(d) /\ HasFallback(n)
    THEN IF FALLBACK_DESCRIPTIONS[n].url # "" THEN FALLBACK_DESCRIPTIONS[n].url
                                             ELSE href
    ELSE href

\* OrNA as it would be without the sentinel
OrNAOmitted(d) == d

\* description || "N/A"
OrNA(d) == IF Missing(d) THEN "N/A" ELSE d

\* the record pushed for a major
Record(collegeName, departmentName, n, href, d) ==
    [college |-> collegeName,
     department |-> departmentName,
     major |-> n,
     url |-> FallbackHref(d, n, href),
     description |-> OrNA(FallbackDescription(d, n))]

\* the rest of the loop body after the try statement, with description = d,
\* up to the next await: the first one of the next iteration, or the file
\* write after the loops
FinishMajor(at, d) ==
    /\ cleanedData' =
          [cleanedData EXCEPT
              ![Position[1]].departments[Position[2]].majors[Position[3]].href =
                  FallbackHref(d, Major.name, Major.href)]
    /\ results' = Append(results,
          Record(College.college, Department.department, Major.name, Major.href, d))
    /\ description' = null
    /\ IF visit < Len(LoopOrder(cleanedData))
       THEN /\ Resolve(at, "detailNewPage")
            /\ visit' = visit + 1
       ELSE /\ Resolve(at, "writeFile")
            /\ visit' = visit

\* Caught as it would be without the try statement
CaughtRethrown(at) ==
    /\ Reject(at)
    /\ UNCHANGED <<warnings, cleanedData, visit, description, results>>

\* the await at step `at` of the try block rejects: the catch block warns
\* and the loop body runs on with the description it has
Caught(at) ==
    /\ warnings' = warnings + 1
    /\ FinishMajor(at, description)

\* browser.newPage() for the detail page
DetailNewPage ==
    /\ pc = "detailNewPage"
    /\ \E ok \in BOOLEAN :
        IF ok
        THEN /\ Resolve("detailNewPage", "detailGoto")
             /\ openDetail' = openDetail + 1
             /\ UNCHANGED <<warnings, cleanedData, visit, description, results>>
        ELSE /\ Caught("detailNewPage")
             /\ openDetail' = openDetail
    /\ UNCHANGED <<browser, launches, collegesData, file>>
    /\ UNCHANGED <<cleanVars, sinkVars>>

\* majorPage.goto(major.href, { timeout: 20000 })
DetailGoto ==
    /\ pc = "detailGoto"
    /\ \E ok \in BOOLEAN :
        IF ok
        THEN /\ Resolve("detailGoto", "detailQuery")
             /\ UNCHANGED <<warnings, cleanedData, visit, description, results>>
        ELSE Caught("detailGoto")
    /\ UNCHANGED <<browser, launches, openDetail, collegesData, file>>
    /\ UNCHANGED <<cleanVars, sinkVars>>

\* majorPage.$(selector): an element, null, or a rejection
DetailQuery ==
    /\ pc = "detailQuery"
    /\ \/ /\ Resolve("detailQuery", "detailEval")
          /\ UNCHANGED <<warnings, cleanedData, visit, description, results>>
       \/ /\ Resolve("detailQuery", "detailClose")
          /\ UNCHANGED <<warnings, cleanedData, visit, description, results>>
       \/ Caught("detailQuery")
    /\ UNCHANGED <<browser, launches, openDetail, collegesData, file>>
    /\ UNCHANGED <<cleanVars, sinkVars>>

\* majorPage.$eval(selector, ...): a text, or a rejection
DetailEval ==
    /\ pc = "detailEval"
    /\ \/ \E text \in DetailTexts :
            /\ Resolve("detailEval", "detailClose")
            /\ description' = text
            /\ UNCHANGED <<warnings, cleanedData, visit, results>>
       \/ Caught("detailEval")
    /\ UNCHANGED <<browser, launches, openDetail, collegesData, file>>
    /\ UNCHANGED <<cleanVars, sinkVars>>

\* majorPage.close(); a rejected close leaves the page open
DetailClose ==
    /\ pc = "detailClose"
    /\ \E ok \in BOOLEAN :
        IF ok
        THEN /\ FinishMajor("detailClose", description)
             /\ openDetail' = openDetail - 1
             /\ warnings' = warnings
        ELSE /\ Caught("detailClose")
             /\ openDetail' = openDetail
    /\ UNCHANGED <<browser, launches, collegesData, file>>
    /\ UNCHANGED <<cleanVars, sinkVars>>

----------------------------------------------------------------------------
(* scrapeCPP, Step 5: the file, then the browser                           *)

\* fs.writeFileSync("cpp_majors.json", JSON.stringify(results, null, 2))
WriteFile ==
    /\ pc = "writeFile"
    /\ \E ok \in BOOLEAN :
        IF ok
        THEN /\ Resolve("writeFile", "browserClose")
             /\ file' = results
        ELSE /\ Reject("writeFile")
             /\ file' = file
    /\ UNCHANGED <<browser, launches, openDetail, warnings, collegesData, cleanedData,
                   visit, description, results>>
    /\ UNCHANGED <<cleanVars, sinkVars>>

\* browser.close() closes the browser and every page of it; the loop of
\* Step 6 is entered without a further await
BrowserClose ==
    /\ pc = "browserClose"
    /\ \E ok \in BOOLEAN :
        IF ok
        THEN /\ browser' = "closed"
             /\ openDetail' = 0
             /\ IF results # <<>>
                THEN /\ Resolve("browserClose", "upsertCollege")
                     /\ entry' = 1
                ELSE /\ Resolve("browserClose", "done")
                     /\ entry' = entry
        ELSE /\ Reject("browserClose")
             /\ UNCHANGED <<browser, openDetail, entry>>
    /\ UNCHANGED <<launches, warnings, collegesData, cleanedData, visit, description,
                   results, file>>
    /\ UNCHANGED <<cleanVars, store, dbCollege, dbDepartment, run, store0, store1>>

----------------------------------------------------------------------------
(* scrapeCPP, Step 6: the three upserts of one record.  The tables are     *)
(* sets of rows; name is unique in College, (name, collegeId) in           *)
(* Department and (name, departmentId) in Major.                           *)

\* the id given to a created row: one not used in the table
NewId(rows) ==
    IF rows = {} THEN 1
    ELSE (CHOOSE i \in {r.id : r \in rows} : \A r \in rows : r.id <= i) + 1

Entry == results[entry]

\* prisma.college.upsert: where { name }, update {}, create { name }
CollegeRow(rows, n) ==
    IF \E r \in rows : r.name = n
    THEN CHOOSE r \in rows : r.name = n
    ELSE [id |-> NewId(rows), name |-> n]

\* DepartmentRow as it would be if name alone were the unique key
DepartmentRowByName(rows, n, collegeId) ==
    IF \E r \in rows : r.name = n
    THEN CHOOSE r \in rows : r.name = n
    ELSE [id |-> NewId(rows), name |-> n, collegeId |-> collegeId]

\* prisma.department.upsert: where { name_collegeId }, update {},
\* create { name, collegeId }
DepartmentRow(rows, n, collegeId) ==
    IF \E r \in rows : r.name = n /\ r.collegeId = collegeId
    THEN CHOOSE r \in rows : r.name = n /\ r.collegeId = collegeId
    ELSE [id |-> NewId(rows), name |-> n, collegeId |-> collegeId]

\* MajorRows as it would be with update: {}
MajorRowsKept(rows, n, departmentId, url, d) ==
    IF \E r \in rows : r.name = n /\ r.departmentId = departmentId
    THEN rows
    ELSE rows \cup { [id |-> NewId(rows), name |-> n, url |-> url,
                      description |-> d, departmentId |-> departmentId] }

\* prisma.major.upsert: where { name_departmentId },
\* update { url, description }, create { name, url, description, departmentId }
MajorRows(rows, n, departmentId, url, d) ==
    IF \E r \in rows : r.name = n /\ r.departmentId = departmentId
    THEN { IF r.name = n /\ r.departmentId = departmentId
           THEN [r EXCEPT !.url = url, !.description = d]
           ELSE r : r \in rows }
    ELSE rows \cup { [id |-> NewId(rows), name |-> n, url |-> url,
                      description |-> d, departmentId |-> departmentId] }

UpsertCollege ==
    /\ pc = "upsertCollege"
    /\ \E ok \in BOOLEAN :
        IF ok
        THEN LET row == CollegeRow(store.colleges, Entry.college)
             IN  /\ Resolve("upsertCollege", "upsertDepartment")
                 /\ store' = [store EXCEPT !.colleges = @ \cup {row}]
                 /\ dbCollege' = row.id
        ELSE /\ Reject("upsertCollege")
             /\ UNCHANGED <<store, dbCollege>>
    /\ UNCHANGED <<browser, launches, openDetail, warnings, collegesData, cleanedData,
                   visit, description, results, file>>
    /\ UNCHANGED <<cleanVars, entry, dbDepartment, run, store0, store1>>

UpsertDepartment ==
    /\ pc = "upsertDepartment"
    /\ \E ok \in BOOLEAN :
        IF ok
        THEN LET row == DepartmentRow(store.departments, Entry.department, dbCollege)
             IN  /\ Resolve("upsertDepartment", "upsertMajor")
                 /\ store' = [store EXCEPT !.departments = @ \cup {row}]
                 /\ dbDepartment' = row.id
        ELSE /\ Reject("upsertDepartment")
             /\ UNCHANGED <<store, dbDepartment>>
    /\ UNCHANGED <<browser, launches, openDetail, warnings, collegesData, cleanedData,
                   visit, description, results, file>>
    /\ UNCHANGED <<cleanVars, entry, dbCollege, run, store0, store1>>

\* the major upsert, then the next record or the return of scrapeCPP
UpsertMajor ==
    /\ pc = "upsertMajor"
    /\ \E ok \in BOOLEAN :
        IF ok
        THEN /\ store' = [store EXCEPT !.majors =
                    MajorRows(@, Entry.major, dbDepartment, Entry.url,
                              Entry.description)]
             /\ IF entry < Len(results)
                THEN /\ Resolve("upsertMajor", "upsertCollege")
                     /\ entry' = entry + 1
                ELSE /\ Resolve("upsertMajor", "done")
                     /\ entry' = entry
        ELSE /\ Reject("upsertMajor")
             /\ UNCHANGED <<store, entry>>
    /\ UNCHANGED <<browser, launches, openDetail, warnings, collegesData, cleanedData,
                   visit, description, results, file>>
    /\ UNCHANGED <<cleanVars, dbCollege, dbDepartment, run, store0, store1>>

----------------------------------------------------------------------------
(* One run of the program: scrapeCPP() called once, on an empty database.  *)

Init ==
    /\ InitScrape
    /\ name = <<>>
    /\ cleaned = [returned |-> FALSE, value |-> <<>>]
    /\ store = EmptyStore
    /\ entry = 0
    /\ dbCollege = 0
    /\ dbDepartment = 0
    /\ run = 1
    /\ store0 = EmptyStore
    /\ store1 = EmptyStore

Next ==
    \/ Launch
    \/ NewPage
    \/ SetViewport
    \/ Goto
    \/ WaitForFilter
    \/ ClickFilter
    \/ SelectView
    \/ WaitForColleges
    \/ Evaluate
    \/ DetailNewPage
    \/ DetailGoto
    \/ DetailQuery
    \/ DetailEval
    \/ DetailClose
    \/ WriteFile
    \/ BrowserClose
    \/ UpsertCollege
    \/ UpsertDepartment
    \/ UpsertMajor

Spec == Init /\ [][Next]_vars

----------------------------------------------------------------------------
(* cleanMajorName called on one label, outside any run                     *)

InitClean ==
    /\ name \in {RawName(l) : l \in Labels}
    /\ cleaned = [returned |-> FALSE, value |-> <<>>]
    /\ InitScrape
    /\ store = EmptyStore
    /\ entry = 0
    /\ dbCollege = 0
    /\ dbDepartment = 0
    /\ run = 1
    /\ store0 = EmptyStore
    /\ store1 = EmptyStore

CallCleanMajorName ==
    /\ ~cleaned.returned
    /\ cleaned' = [returned |-> TRUE, value |-> cleanMajorName(name)]
    /\ UNCHANGED <<name, scrapeVars, sinkVars>>

NextClean == CallCleanMajorName

SpecClean == InitClean /\ [][NextClean]_vars

----------------------------------------------------------------------------
(* Step 6 alone: the loop over a list of records, on a database that may   *)
(* hold rows of earlier runs, and run again over the same list.            *)

\* largest number of records in the list
MaxRecords == 2

\* largest number of passes over the list
MaxRuns == 2

\* what a record can hold
Records ==
    [college : {"College of Engineering",
                "College of Letters, Arts, and Social Sciences"},
     department : {"Music", "Aerospace Engineering"},
     major : {Music, AerospaceEngineering},
     url : {LinkHref(1)},
     description : {"N/A", "Learn by doing in this hands-on program."}]
    \cup
    [college : {"College of Engineering",
                "College of Letters, Arts, and Social Sciences"},
     department : {"Music", "Aerospace Engineering"},
     major : {AerospaceEngineering},
     url : {FALLBACK_DESCRIPTIONS[AerospaceEngineering].url},
     description : {FALLBACK_DESCRIPTIONS[AerospaceEngineering].description}]

RecordLists == UNION { [1..n -> Records] : n \in 0..MaxRecords }

\* rows left by an earlier run, when the pages had other contents
OldColleges ==
    { [id |-> 1, name |-> "College of Engineering"],
      [id |-> 4, name |-> "College of Science"] }

OldDepartments ==
    { [id |-> 1, name |-> "Aerospace Engineering", collegeId |-> 1],
      [id |-> 2, name |-> "Music", collegeId |-> 4] }

OldMajors ==
    { [id |-> 1, name |-> AerospaceEngineering,
       url |-> "https://www.cpp.edu/programs/old.shtml",
       description |-> "N/A", departmentId |-> 1],
      [id |-> 3, name |-> Music,
       url |-> "https://www.cpp.edu/programs/old.shtml",
       description |-> "N/A", departmentId |-> 2] }

Stores ==
    { EmptyStore,
      [colleges |-> OldColleges, departments |-> {}, majors |-> {}],
      [colleges |-> OldColleges, departments |-> OldDepartments, majors |-> {}],
      [colleges |-> OldColleges, departments |-> OldDepartments,
       majors |-> OldMajors] }

InitSink ==
    /\ results \in RecordLists
    /\ store \in Stores
    /\ store0 = store
    /\ store1 = store
    /\ run = 1
    /\ pc = IF results # <<>> THEN "upsertCollege" ELSE "done"
    /\ entry = IF results # <<>> THEN 1 ELSE 0
    /\ dbCollege = 0
    /\ dbDepartment = 0
    /\ error = null
    /\ browser = "closed"
    /\ launches = 1
    /\ openDetail = 0
    /\ warnings = 0
    /\ collegesData = <<>>
    /\ cleanedData = <<>>
    /\ visit = 0
    /\ description = null
    /\ file = results
    /\ name = <<>>
    /\ cleaned = [returned |-> FALSE, value |-> <<>>]

\* the loop of Step 6 entered again, with the same list
Replay ==
    /\ pc = "done"
    /\ run < MaxRuns
    /\ run' = run + 1
    /\ store1' = IF run = 1 THEN store ELSE store1
    /\ IF results # <<>>
       THEN /\ pc' = "upsertCollege"
            /\ entry' = 1
       ELSE UNCHANGED <<pc, entry>>
    /\ UNCHANGED <<error, browser, launches, openDetail, warnings, collegesData,
                   cleanedData, visit, description, results, file>>
    /\ UNCHANGED <<cleanVars, store, dbCollege, dbDepartment, store0>>

NextSink ==
    \/ UpsertCollege
    \/ UpsertDepartment
    \/ UpsertMajor
    \/ Replay

SpecSink == InitSink /\ [][NextSink]_vars

----------------------------------------------------------------------------
(* Vocabulary of the properties                                            *)

Range(s) == {s[i] : i \in DOMAIN s}

Triple(r) == <<r.college, r.department, r.major>>

\* the last record of the list with the triple of record i
LastWithTriple(i) ==
    CHOOSE j \in i..Len(results) :
        /\ Triple(results[j]) = Triple(results[i])
        /\ \A k \in (j + 1)..Len(results) : Triple(results[k]) # Triple(results[i])

\* the Major rows a record is stored in: those of its name under the
\* Department row of its department under the College row of its college
MajorRowsOf(r) ==
    { m \in store.majors :
        \E c \in store.colleges, d \in store.departments :
            /\ c.name = r.college
            /\ d.name = r.department /\ d.collegeId = c.id
            /\ m.name = r.major /\ m.departmentId = d.id }

\* no two rows of a table share an id or a unique key
NoDuplicateRows(st) ==
    /\ \A a, b \in st.colleges : (a.id = b.id \/ a.name = b.name) => a = b
    /\ \A a, b \in st.departments :
          (a.id = b.id \/ (a.name = b.name /\ a.collegeId = b.collegeId)) => a = b
    /\ \A a, b \in st.majors :
          (a.id = b.id \/ (a.name = b.name /\ a.departmentId = b.departmentId))
              => a = b

ExtractionSteps ==
    {"launch", "newPage", "setViewport", "goto", "waitForFilter", "click",
     "select", "waitForColleges", "evaluate"}

DetailSteps ==
    {"detailNewPage", "detailGoto", "detailQuery", "detailEval", "detailClose"}

SinkSteps ==
    {"writeFile", "browserClose", "upsertCollege", "upsertDepartment",
     "upsertMajor"}

\* the loops of Step 3 have ended
LoopEnded ==
    \/ pc \in SinkSteps \cup {"done"}
    \/ pc = "failed" /\ error \in SinkSteps

\* the step taken ends the visit of a major: a record is pushed
VisitEnds == pc \in DetailSteps /\ Len(results') = Len(results) + 1

Pushed == results'[Len(results')]

----------------------------------------------------------------------------
(* C1: running the upsert loop twice over the same list, from an empty     *)
(* database, leaves after the second pass the rows of the first pass, no   *)
(* two rows with the same key, and as many Major rows as the list has      *)
(* distinct (college, department, major) triples.                          *)
C1_SinkIdempotent ==
    (store0 = EmptyStore /\ run >= 2 /\ pc = "done") =>
        /\ store = store1
        /\ NoDuplicateRows(store)
        /\ Cardinality(store.majors) =
              Cardinality({Triple(r) : r \in Range(results)})

\* a second pass has ended over a list that names one major twice, with
\* different descriptions
C1_Witness ==
    /\ store0 = EmptyStore /\ run = 2 /\ pc = "done"
    /\ Len(results) = 2
    /\ Triple(results[1]) = Triple(results[2])
    /\ results[1].description # results[2].description

----------------------------------------------------------------------------
(* C10: the upserts of a record run College, Department, Major; when the   *)
(* loop is done every record's Major row is a single row that holds the    *)
(* url and description of the last record with that key; rows that were    *)
(* there before keep their id and key, College and Department rows keep    *)
(* every field, and no row is deleted.                                     *)
C10_UpsertInPlace ==
    /\ pc = "upsertDepartment" =>
          \E c \in store.colleges : c.id = dbCollege /\ c.name = Entry.college
    /\ pc = "upsertMajor" =>
          \E d \in store.departments :
              /\ d.id = dbDepartment
              /\ d.name = Entry.department
              /\ d.collegeId = dbCollege
    /\ pc \in {"upsertCollege", "upsertDepartment", "upsertMajor"} =>
          \A j \in 1..(entry - 1) : MajorRowsOf(results[j]) # {}
    /\ pc = "done" =>
          \A i \in 1..Len(results) :
              /\ Cardinality(MajorRowsOf(results[i])) = 1
              /\ \A m \in MajorRowsOf(results[i]) :
                    /\ m.url = results[LastWithTriple(i)].url
                    /\ m.description = results[LastWithTriple(i)].description
    /\ store0.colleges \subseteq store.colleges
    /\ store0.departments \subseteq store.departments
    /\ \A m \in store0.majors :
          \E n \in store.majors :
              n.id = m.id /\ n.name = m.name /\ n.departmentId = m.departmentId
    /\ NoDuplicateRows(store)

\* the loop is done and has changed a Major row that was there before,
\* without adding one
C10_Witness ==
    /\ pc = "done"
    /\ \E m \in store0.majors : m \notin store.majors
    /\ Cardinality(store.majors) = Cardinality(store0.majors)

----------------------------------------------------------------------------
(* What a run owes for a listing: one record per distinct cleaned name of  *)
(* each department, in the order in which the names first occur.           *)

\* the cleaned name of each link text a page can show
CleanedText == [t \in {l.name : l \in Links} |-> cleanMajorName(t)]

\* the cleaned names of the first n links of a department, each once
RECURSIVE DistinctNames(_, _)
DistinctNames(majors, n) ==
    IF n = 0 THEN <<>>
    ELSE IF \E k \in 1..(n - 1) :
                CleanedText[majors[k].name] = CleanedText[majors[n].name]
         THEN DistinctNames(majors, n - 1)
         ELSE Append(DistinctNames(majors, n - 1), CleanedText[majors[n].name])

DepartmentTriples(collegeName, dept) ==
    LET names == DistinctNames(dept.majors, Len(dept.majors))
    IN  [k \in 1..Len(names) |-> <<collegeName, dept.department, names[k]>>]

RECURSIVE CollegeTriples(_, _)
CollegeTriples(c, j) ==
    IF j > Len(c.departments) THEN <<>>
    ELSE DepartmentTriples(c.college, c.departments[j]) \o CollegeTriples(c, j + 1)

RECURSIVE ListingTriples(_, _)
ListingTriples(data, i) ==
    IF i > Len(data) THEN <<>>
    ELSE CollegeTriples(data[i], 1) \o ListingTriples(data, i + 1)

OwedTriples == ListingTriples(collegesData, 1)

----------------------------------------------------------------------------
(* C2: a rejected await of a major's visit never ends the run; the records *)
(* pushed so far are those owed, one per major, in source order; once the  *)
(* loops have ended there is one for every major of every department; the  *)
(* file written holds all of them and a finished run has stored a Major    *)
(* row for each.                                                           *)
C2_FailureIsolation ==
    LET owed == OwedTriples
    IN  /\ error \notin DetailSteps
        /\ Len(results) <= Len(owed)
        /\ \A k \in 1..Len(results) : Triple(results[k]) = owed[k]
        /\ pc \in DetailSteps => Len(results) = visit - 1 /\ visit <= Len(owed)
        /\ LoopEnded => Len(results) = Len(owed)
        /\ (pc \in SinkSteps \cup {"done"} /\ pc # "writeFile") => file = results
        /\ pc = "done" => \A r \in Range(results) : MajorRowsOf(r) # {}

\* a run has finished with three records although exactly one visit failed
C2_Witness ==
    /\ pc = "done"
    /\ warnings = 1
    /\ Len(results) = 3
    /\ file = results
    /\ Cardinality(store.majors) = 3

----------------------------------------------------------------------------
(* C3: when a visit ends for a major with a fallback entry and no          *)
(* description was obtained (an await of the fetch was rejected, the block *)
(* is missing, or its text is empty), the record pushed has the fallback   *)
(* description and the fallback url; when a non-empty description was      *)
(* scraped, the record has that description and the href of the listing.   *)
C3_Fallback ==
    [][VisitEnds =>
        /\ (/\ Major.name \in DOMAIN FALLBACK_DESCRIPTIONS
            /\ (pc # "detailClose" \/ description \in {null, ""}))
           => /\ Pushed.description = FALLBACK_DESCRIPTIONS[Major.name].description
              /\ Pushed.url = FALLBACK_DESCRIPTIONS[Major.name].url
        /\ description \notin {null, ""}
           => /\ Pushed.description = description
              /\ Pushed.url = Major.href
              /\ \E m \in Range(collegesData[Position[1]]
                                    .departments[Position[2]].majors) :
                    /\ m.href = Pushed.url
                    /\ cleanMajorName(m.name) = Pushed.major]_vars

\* a finished run in which a visit failed, "Materials Engineering" got the
\* fallback description and url, and another major with a fallback entry
\* kept its scraped description and its own link
C3_Witness ==
    /\ pc = "done"
    /\ warnings >= 1
    /\ \E r \in Range(results) :
          /\ r.major = MaterialsEngineering
          /\ r.url = "https://www.cpp.edu/engineering/cme/index.shtml"
          /\ r.description = FALLBACK_DESCRIPTIONS[MaterialsEngineering].description
    /\ \E r \in Range(results) :
          /\ r.major = AerospaceEngineering
          /\ r.description \in DetailTexts
          /\ r.url # FALLBACK_DESCRIPTIONS[AerospaceEngineering].url

----------------------------------------------------------------------------
(* C4: every record of the list, of the file and every Major row has a     *)
(* description that is not null and not empty: a scraped text, a fallback  *)
(* text or "N/A"; and a visit that ends without a non-empty description    *)
(* for a major without fallback entry pushes exactly "N/A".                *)
Descriptions ==
    {r.description : r \in Range(results) \cup Range(file) \cup store.majors}

C4_DescriptionSet ==
    /\ null \notin Descriptions
    /\ "" \notin Descriptions
    /\ Descriptions \subseteq
          (DetailTexts \ {""})
          \cup {FALLBACK_DESCRIPTIONS[n].description : n \in DOMAIN FALLBACK_DESCRIPTIONS}
          \cup {"N/A"}

C4_Description ==
    /\ []C4_DescriptionSet
    /\ [][(/\ VisitEnds
           /\ description \in {null, ""}
           /\ Major.name \notin DOMAIN FALLBACK_DESCRIPTIONS)
          => Pushed.description = "N/A"]_vars

\* a finished run that stored "N/A" for a major without fallback entry and
\* a scraped text for another major
C4_Witness ==
    /\ pc = "done"
    /\ \E r \in Range(file) :
          r.description = "N/A" /\ r.major \notin DOMAIN FALLBACK_DESCRIPTIONS
    /\ \E m \in store.majors : m.description = "N/A"
    /\ \E m \in store.majors : m.description \in DetailTexts

----------------------------------------------------------------------------
(* C5: before any visit has ended, each department of the cleaned listing  *)
(* has exactly the cleaned names of its links, each once, and each with    *)
(* the href of the last link that carries the name.                        *)
Deduplicated(in, out) ==
    /\ {out[k].name : k \in DOMAIN out} = {in[k].name : k \in DOMAIN in}
    /\ \A a, b \in DOMAIN out : out[a].name = out[b].name => a = b
    /\ \A k \in DOMAIN out :
          \E i \in DOMAIN in :
              /\ in[i].name = out[k].name
              /\ in[i].href = out[k].href
              /\ \A j \in DOMAIN in : in[j].name = out[k].name => j <= i

----------------------------------------------------------------------------
(* C7: a rejected await of the extraction ends the run, and then neither   *)
(* the file nor the database has been written; neither is written while    *)
(* the run is in Steps 1 to 3, and whenever one differs from what the run  *)
(* found, the loops of Step 3 have pushed a record for every major.        *)
C7_NothingPersisted ==
    /\ error \in ExtractionSteps => pc = "failed"
    /\ (error \in ExtractionSteps \/ pc \in ExtractionSteps \cup DetailSteps)
          => file = PriorFile /\ store = store0
    /\ (file # PriorFile \/ store # store0)
          => Len(results) = Len(LoopOrder(cleanedData))

\* the wait for the college structure was rejected
C7_Witness ==
    /\ pc = "failed"
    /\ error = "waitForColleges"
    /\ file = PriorFile
    /\ store = store0

----------------------------------------------------------------------------
(* C8: at most one detail page is open at any time, and none is open when  *)
(* the next visit starts or when the loops of Step 3 have ended.           *)
C8_DetailPageReleased ==
    /\ openDetail <= 1
    /\ pc \in {"detailNewPage", "writeFile"} => openDetail = 0

----------------------------------------------------------------------------
(* C9: the browser is launched at most once, is held from the launch until *)
(* the run ends, and is not held once the run has ended, whether it        *)
(* returned or was rejected.                                               *)
C9_BrowserReleased ==
    /\ launches <= 1
    /\ (launches = 1 /\ pc \notin {"done", "failed"}) => browser = "open"
    /\ pc \in {"done", "failed"} => browser # "open"

----------------------------------------------------------------------------
(* C6: for a label "Major, B.X." or "Major, B.X. - Specialization", with   *)
(* or without the degree suffix, cleanMajorName returns the major when     *)
(* there is no specialization or it starts with "General", the major       *)
(* followed by " - Pre-Credential" when the specialization is              *)
(* "Pre-Credential", and the specialization otherwise.                     *)
Normalized(l) ==
    IF l.specialization = <<>> THEN l.major
    ELSE IF l.specialization = PreCredential
    THEN l.major \o <<" ","-"," ">> \o PreCredential
    ELSE IF Len(l.specialization) >= 7 /\ SubSeq(l.specialization, 1, 7) = General
    THEN l.major
    ELSE l.specialization

C6_NormalizationRules ==
    \A l \in Labels :
        (cleaned.returned /\ name = RawName(l)) => cleaned.value = Normalized(l)

====
